---- MODULE Spec2Model ----
(***************************************************************************)
(* egui_extras strip layout: StripBuilder, the Strip cursor and its drain  *)
(* on drop (src/egui_extras/src/strip.rs), together with the two           *)
(* collaborators strip.rs calls: the sizing resolver (Sizing::to_lengths)  *)
(* and the strip layout engine (StripLayout).                              *)
(*                                                                         *)
(* Lengths are f32 in the source; the model uses integers.                 *)
(* One pass is a call stack of frames, one frame per StripBuilder: the     *)
(* frame of a nested builder sits above the frame of the strip whose cell  *)
(* content callback created it.                                            *)
(***************************************************************************)
EXTENDS Integers, Sequences, FiniteSets, TLC

VARIABLES
    stack,      \* call stack of builder/strip frames, outermost first
    status,     \* "running", "unwinding" (a panic propagates), "returned", "aborted"
    strict,     \* cfg!(debug_assertions)
    response,   \* what the outermost horizontal/vertical returned to its caller
    ops,        \* calls the caller made so far in this pass: clip, cell_layout,
                \* size and sizes on a builder, cell, empty and strip on a Strip
    resolved    \* the last call of the resolver on its own: its arguments and result

vars == <<stack, status, strict, response, ops, resolved>>

----------------------------------------------------------------------------
(* Bounds of the model *)

\* longest sizing a builder may accumulate
MaxSizes == 2
\* calls the caller makes in one pass, over all builders and strips
MaxOps == 4
\* longest sizing given to the resolver on its own
MaxSpecs == 3

(* Program constants *)

\* the length used when more cells are added than were allocated
Fallback == 8

----------------------------------------------------------------------------
(* Small helpers *)

Max(a, b) == IF a >= b THEN a ELSE b
Min(a, b) == IF a <= b THEN a ELSE b

RECURSIVE SumSeq(_)
SumSeq(s) == IF s = <<>> THEN 0 ELSE Head(s) + SumSeq(Tail(s))

----------------------------------------------------------------------------
(* Size specifications (spec 3, 4.1): a variant, its length or weight, and  *)
(* an optional range [min, max]; hasMax = FALSE is "no upper bound".        *)

exact(length) ==
    [kind |-> "Absolute", v |-> length, min |-> 0, max |-> 0, hasMax |-> FALSE]
relative(weight) ==
    [kind |-> "Relative", v |-> weight, min |-> 0, max |-> 0, hasMax |-> FALSE]
remainder ==
    [kind |-> "Remainder", v |-> 1, min |-> 0, max |-> 0, hasMax |-> FALSE]

\* at_least(m): narrows the range from below; the range stays min <= max
at_least(spec, m) ==
    [spec EXCEPT !.min = m,
                 !.max = IF spec.hasMax THEN Max(spec.max, m) ELSE spec.max]

\* at_most(M): narrows the range from above; the range stays min <= max
at_most(spec, M) ==
    [spec EXCEPT !.max = Max(M, spec.min), !.hasMax = TRUE]

\* a faulty clamp: the lower bound of the range is ignored
clamp_upper_only(x, spec) ==
    IF spec.hasMax THEN Min(x, spec.max) ELSE x

clamp(x, spec) ==
    LET lo == Max(x, spec.min)
    IN  IF spec.hasMax THEN Min(lo, spec.max) ELSE lo

----------------------------------------------------------------------------
(* Sizing resolver (spec 4.2) *)

is_fixed(spec) ==
    spec.kind = "Absolute" \/ (spec.hasMax /\ spec.min = spec.max)

\* a faulty fixed length: the requested length is capped by the range's minimum
fixed_length_min(spec) == spec.min

fixed_length(spec) ==
    IF spec.kind = "Absolute" THEN clamp(spec.v, spec) ELSE spec.min

RECURSIVE sum_fixed(_)
sum_fixed(specs) ==
    IF specs = <<>> THEN 0
    ELSE (IF is_fixed(Head(specs)) THEN fixed_length(Head(specs)) ELSE 0)
         + sum_fixed(Tail(specs))

RECURSIVE sum_weights(_)
sum_weights(specs) ==
    IF specs = <<>> THEN 0
    ELSE (IF is_fixed(Head(specs)) THEN 0 ELSE Head(specs).v)
         + sum_weights(Tail(specs))

to_lengths(specs, available, spacing) ==
    LET usable    == Max(available - spacing * (Len(specs) - 1), 0)
        remaining == Max(usable - sum_fixed(specs), 0)
        weights   == sum_weights(specs)
        share(spec) == IF weights = 0 THEN 0 ELSE (remaining * spec.v) \div weights
    IN  [i \in 1..Len(specs) |->
            IF is_fixed(specs[i]) THEN fixed_length(specs[i])
            ELSE clamp(share(specs[i]), specs[i])]

----------------------------------------------------------------------------
(* Inputs *)

Specs == {exact(40), remainder}
Avails == {100}
Spacings == {0, 10}
Layouts == {"left_to_right", "top_down"}

----------------------------------------------------------------------------
(* Cell sizes and the strip layout engine (spec 4.3) *)

Absolute(len) == [kind |-> "Absolute", size |-> len]
Remainder == [kind |-> "Remainder", size |-> 0]

NoLayout ==
    [direction |-> "None", clip |-> FALSE, cell_layout |-> "none", log |-> <<>>]

\* StripLayout::new(ui, direction, clip, cell_layout)
StripLayout_new(direction, clip, cell_layout) ==
    [direction |-> direction, clip |-> clip, cell_layout |-> cell_layout,
     log |-> <<>>]

\* StripLayout::add(width, height, add_contents): the call as the engine sees it
layout_add(layout, width, height) ==
    [layout EXCEPT !.log = Append(@, [op |-> "add", width |-> width, height |-> height])]

\* StripLayout::empty(width, height)
layout_empty(layout, width, height) ==
    [layout EXCEPT !.log = Append(@, [op |-> "empty", width |-> width, height |-> height])]

\* the primary-axis length of one logged call
primary(layout, e) ==
    IF layout.direction = "Horizontal" THEN e.width.size ELSE e.height.size

RECURSIVE used(_, _)
used(layout, log) ==
    IF log = <<>> THEN 0
    ELSE (IF Head(log).op = "allocate_rect" THEN 0 ELSE primary(layout, Head(log)))
         + used(layout, Tail(log))

\* StripLayout::allocate_rect(): claims the accumulated rectangle
layout_allocate_rect(layout) ==
    [layout EXCEPT !.log =
        Append(@, [op |-> "allocate_rect", width |-> Remainder, height |-> Remainder])]

\* the Response allocate_rect produces for the rectangle accumulated so far
allocate_rect_response(layout) ==
    [direction |-> layout.direction, used |-> used(layout, layout.log)]

NoResponse == [direction |-> "None", used |-> 0]

----------------------------------------------------------------------------
(* StripBuilder *)

\* StripBuilder::new(ui): the cell layout is the ui's layout, clip is on
StripBuilder_new(ui_layout) ==
    [sizing |-> <<>>, cell_layout |-> ui_layout, clip |-> TRUE]

\* the builder after horizontal/vertical took it by value
NoBuilder == [sizing |-> <<>>, cell_layout |-> "none", clip |-> FALSE]

\* a faulty clip: clipping can be turned off but not on again
clip_sticky(builder, c) == [builder EXCEPT !.clip = @ /\ c]

clip(builder, c) == [builder EXCEPT !.clip = c]

cell_layout(builder, l) == [builder EXCEPT !.cell_layout = l]

\* Sizing::add
sizing_add(sizing, spec) == Append(sizing, spec)

size(builder, spec) == [builder EXCEPT !.sizing = sizing_add(@, spec)]

\* a faulty sizes: the loop runs over 0..=count
sizes_inclusive(builder, spec, count) ==
    LET RECURSIVE add_n(_, _)
        add_n(b, n) ==
            IF n = 0 THEN b ELSE add_n([b EXCEPT !.sizing = sizing_add(@, spec)], n - 1)
    IN  add_n(builder, count + 1)

\* for _ in 0..count { self.sizing.add(size) }
RECURSIVE sizes(_, _, _)
sizes(builder, spec, count) ==
    IF count = 0 THEN builder
    ELSE sizes([builder EXCEPT !.sizing = sizing_add(@, spec)], spec, count - 1)

----------------------------------------------------------------------------
(* Strip, the cursor *)

NoStrip == [direction |-> "None", sizes |-> <<>>]

\* a faulty next_cell_size: takes the last entry of the view, not the first
next_cell_size_last(strip) ==
    LET over == strip.sizes = <<>>
        len  == IF over THEN Fallback ELSE strip.sizes[Len(strip.sizes)]
    IN  [panic  |-> over /\ strict,
         diag   |-> over /\ ~strict,
         sizes  |-> IF over THEN strip.sizes ELSE Tail(strip.sizes),
         width  |-> IF strip.direction = "Horizontal" THEN Absolute(len) ELSE Remainder,
         height |-> IF strip.direction = "Horizontal" THEN Remainder ELSE Absolute(len)]

\* a faulty next_cell_size: the arms of the match on the direction are swapped
next_cell_size_swapped(strip) ==
    LET over == strip.sizes = <<>>
        len  == IF over THEN Fallback ELSE strip.sizes[1]
    IN  [panic  |-> over /\ strict,
         diag   |-> over /\ ~strict,
         sizes  |-> IF over THEN strip.sizes ELSE Tail(strip.sizes),
         width  |-> IF strip.direction = "Horizontal" THEN Remainder ELSE Absolute(len),
         height |-> IF strip.direction = "Horizontal" THEN Absolute(len) ELSE Remainder]

\* Strip::next_cell_size: the length taken, the view left, and whether the
\* over-consumption path was taken (panic in a debug build, diagnostic and
\* fallback length otherwise)
next_cell_size(strip) ==
    LET over == strip.sizes = <<>>
        len  == IF over THEN Fallback ELSE strip.sizes[1]
    IN  [panic  |-> over /\ strict,
         diag   |-> over /\ ~strict,
         sizes  |-> IF over THEN strip.sizes ELSE Tail(strip.sizes),
         width  |-> IF strip.direction = "Horizontal" THEN Absolute(len) ELSE Remainder,
         height |-> IF strip.direction = "Horizontal" THEN Remainder ELSE Absolute(len)]

----------------------------------------------------------------------------
(* Frames: one StripBuilder and, once horizontal/vertical runs, the layout  *)
(* engine, the resolved lengths and the Strip cursor of that call.          *)
(*   pc "config"    the builder is being configured                          *)
(*      "callback"  inside the caller's strip callback, the Strip is live   *)
(*      "content"   inside the content callback of a cell                   *)
(*      "instrip"   inside the content callback Strip::strip built          *)
(*      "dropped"   the callback returned and the Strip was dropped         *)
(*      "finished"  horizontal/vertical returned                            *)
(*      "unwound"   a panic unwound this frame                              *)
(* history, ncalls, diags and panicked record what happened: the size and   *)
(* sizes ops made on the builder, the cell/empty/strip ops issued by    *)
(* the callback, the diagnostics printed and whether the cursor panicked.   *)
(* asked records the clip flag and the cell layout the builder was last     *)
(* told to use: the ones it was constructed with, then the argument of the  *)
(* latest clip / cell_layout call.                                          *)

NewFrame(builder) ==
    [pc |-> "config", builder |-> builder, history |-> <<>>,
     layout |-> NoLayout, lengths |-> <<>>, strip |-> NoStrip,
     ncalls |-> 0, diags |-> 0, panicked |-> FALSE, response |-> NoResponse,
     asked |-> [clip |-> builder.clip, cell_layout |-> builder.cell_layout]]

\* a faulty cell: a call with the view empty is dropped silently
cell_silent(f) ==
    LET n == next_cell_size(f.strip)
    IN  IF f.strip.sizes = <<>> THEN f
        ELSE [f EXCEPT !.strip.sizes = n.sizes,
                       !.layout = layout_add(@, n.width, n.height)]

\* Strip::cell up to the point where the content callback is entered
cell(f) ==
    LET n == next_cell_size(f.strip)
    IN  IF n.panic THEN [f EXCEPT !.panicked = TRUE]
        ELSE [f EXCEPT !.strip.sizes = n.sizes,
                       !.diags = IF n.diag THEN @ + 1 ELSE @,
                       !.layout = layout_add(@, n.width, n.height)]

\* Strip::empty
empty(f) ==
    LET n == next_cell_size(f.strip)
    IN  IF n.panic THEN [f EXCEPT !.panicked = TRUE]
        ELSE [f EXCEPT !.strip.sizes = n.sizes,
                       !.diags = IF n.diag THEN @ + 1 ELSE @,
                       !.layout = layout_empty(@, n.width, n.height)]

\* a faulty Strip::strip: the new builder keeps its default clip
strip_builder_default_clip(f) == StripBuilder_new(f.layout.cell_layout)

\* Strip::strip: the builder handed to the caller's closure
strip_builder(f) == clip(StripBuilder_new(f.layout.cell_layout), f.layout.clip)

\* a faulty drop: the loop tests the view after the call, not before it
RECURSIVE drop_do_while(_)
drop_do_while(f) ==
    LET g == empty(f)
    IN  IF g.strip.sizes = <<>> \/ g.panicked THEN g ELSE drop_do_while(g)

\* a faulty drop: an `if` in place of the `while`
drop_once(f) ==
    IF f.strip.sizes = <<>> \/ f.panicked THEN f ELSE empty(f)

\* impl Drop for Strip: while !self.sizes.is_empty() { self.empty() }
RECURSIVE drop(_)
drop(f) ==
    IF f.strip.sizes = <<>> \/ f.panicked THEN f ELSE drop(empty(f))

\* a faulty horizontal / vertical: the Strip is given the lengths after the first
finalize_skip_first(f, direction, available, spacing) ==
    LET lengths == to_lengths(f.builder.sizing, available, spacing)
    IN  [f EXCEPT !.pc = "callback",
                  !.builder = NoBuilder,
                  !.history = <<>>,
                  !.lengths = lengths,
                  !.layout = StripLayout_new(direction, f.builder.clip,
                                             f.builder.cell_layout),
                  !.strip = [direction |-> direction,
                             sizes |-> IF lengths = <<>> THEN <<>> ELSE Tail(lengths)]]

\* a faulty horizontal / vertical: allocate_rect is called before the callback runs
finalize_allocate_first(f, direction, available, spacing) ==
    LET lengths == to_lengths(f.builder.sizing, available, spacing)
    IN  [f EXCEPT !.pc = "callback",
                  !.builder = NoBuilder,
                  !.history = <<>>,
                  !.lengths = lengths,
                  !.layout = layout_allocate_rect(
                                 StripLayout_new(direction, f.builder.clip,
                                                 f.builder.cell_layout)),
                  !.strip = [direction |-> direction, sizes |-> lengths]]

\* StripBuilder::horizontal / vertical up to the call of the strip callback
finalize(f, direction, available, spacing) ==
    LET lengths == to_lengths(f.builder.sizing, available, spacing)
    IN  [f EXCEPT !.pc = "callback",
                  !.builder = NoBuilder,
                  !.history = <<>>,
                  !.lengths = lengths,
                  !.layout = StripLayout_new(direction, f.builder.clip,
                                             f.builder.cell_layout),
                  !.strip = [direction |-> direction, sizes |-> lengths]]

\* the tail of horizontal / vertical: layout.allocate_rect() is the result
allocate_rect(f) ==
    [f EXCEPT !.pc = "finished",
              !.response = allocate_rect_response(f.layout),
              !.layout = layout_allocate_rect(f.layout)]

LiveStrip(f) == f.pc \in {"callback", "content", "instrip"}

\* a faulty unwinding: horizontal / vertical catch the panic of the callback
\* and still call allocate_rect
unwind_and_allocate(f) ==
    [(IF LiveStrip(f) THEN allocate_rect(drop(f)) ELSE f) EXCEPT !.pc = "unwound"]

\* a panic leaves horizontal / vertical: a Strip still in scope is dropped,
\* the engine is discarded and allocate_rect is not reached
unwind(f) ==
    [(IF LiveStrip(f) THEN drop(f) ELSE f) EXCEPT !.pc = "unwound"]

----------------------------------------------------------------------------
(* Actions *)

Frames == 1..Len(stack)
SetFrame(i, f) == [stack EXCEPT ![i] = f]
MayCall(f) == status = "running" /\ f.pc = "callback" /\ ops < MaxOps
MayConfig(f) == status = "running" /\ f.pc = "config" /\ ops < MaxOps

NoResolved ==
    [specs |-> <<>>, available |-> 0, spacing |-> 0, lengths |-> <<>>, done |-> FALSE]

Init ==
    /\ \E l \in Layouts : stack = <<NewFrame(StripBuilder_new(l))>>
    /\ status = "running"
    /\ strict \in BOOLEAN
    /\ response = NoResponse
    /\ ops = 0
    /\ resolved = NoResolved

ClipCall(i, c) ==
    /\ MayConfig(stack[i])
    /\ stack' = SetFrame(i, [stack[i] EXCEPT !.builder = clip(@, c),
                                              !.asked.clip = c])
    /\ ops' = ops + 1
    /\ UNCHANGED <<status, strict, response, resolved>>

CellLayoutCall(i, l) ==
    /\ MayConfig(stack[i])
    /\ stack' = SetFrame(i, [stack[i] EXCEPT !.builder = cell_layout(@, l),
                                              !.asked.cell_layout = l])
    /\ ops' = ops + 1
    /\ UNCHANGED <<status, strict, response, resolved>>

SizeCall(i, spec) ==
    /\ MayConfig(stack[i])
    /\ Len(stack[i].builder.sizing) < MaxSizes
    /\ stack' = SetFrame(i, [stack[i] EXCEPT
                    !.builder = size(@, spec),
                    !.history = Append(@, [op |-> "size", spec |-> spec, count |-> 1])])
    /\ ops' = ops + 1
    /\ UNCHANGED <<status, strict, response, resolved>>

SizesCall(i, spec, count) ==
    /\ MayConfig(stack[i])
    /\ Len(stack[i].builder.sizing) + count <= MaxSizes
    /\ stack' = SetFrame(i, [stack[i] EXCEPT
                    !.builder = sizes(@, spec, count),
                    !.history = Append(@, [op |-> "sizes", spec |-> spec, count |-> count])])
    /\ ops' = ops + 1
    /\ UNCHANGED <<status, strict, response, resolved>>

Horizontal(i, available, spacing) ==
    /\ status = "running" /\ stack[i].pc = "config"
    /\ stack' = SetFrame(i, finalize(stack[i], "Horizontal", available, spacing))
    /\ UNCHANGED <<status, strict, response, ops, resolved>>

Vertical(i, available, spacing) ==
    /\ status = "running" /\ stack[i].pc = "config"
    /\ stack' = SetFrame(i, finalize(stack[i], "Vertical", available, spacing))
    /\ UNCHANGED <<status, strict, response, ops, resolved>>

\* strip.cell(add_contents): the engine's add runs the content callback
Cell(i) ==
    /\ MayCall(stack[i])
    /\ LET f == cell([stack[i] EXCEPT !.ncalls = @ + 1])
       IN  /\ stack' = SetFrame(i, IF f.panicked THEN f ELSE [f EXCEPT !.pc = "content"])
           /\ status' = IF f.panicked THEN "unwinding" ELSE status
    /\ ops' = ops + 1
    /\ UNCHANGED <<strict, response, resolved>>

\* the content callback of a cell returns
ContentReturn(i) ==
    /\ status = "running" /\ stack[i].pc = "content"
    /\ stack' = SetFrame(i, [stack[i] EXCEPT !.pc = "callback"])
    /\ UNCHANGED <<status, strict, response, ops, resolved>>

\* strip.empty()
Empty(i) ==
    /\ MayCall(stack[i])
    /\ LET f == empty([stack[i] EXCEPT !.ncalls = @ + 1])
       IN  /\ stack' = SetFrame(i, f)
           /\ status' = IF f.panicked THEN "unwinding" ELSE status
    /\ ops' = ops + 1
    /\ UNCHANGED <<strict, response, resolved>>

\* a faulty strip.strip: the closure is started but the cell does not wait
\* for it, the strip callback goes on
StripCall_detached(i) ==
    /\ MayCall(stack[i])
    /\ LET f == cell([stack[i] EXCEPT !.ncalls = @ + 1])
       IN  /\ stack' = IF f.panicked THEN SetFrame(i, f)
                       ELSE Append(SetFrame(i, f), NewFrame(strip_builder(stack[i])))
           /\ status' = IF f.panicked THEN "unwinding" ELSE status
    /\ ops' = ops + 1
    /\ UNCHANGED <<strict, response, resolved>>

\* strip.strip(strip_builder): a cell whose content callback hands a new
\* builder to the caller's closure
StripCall(i) ==
    /\ MayCall(stack[i])
    /\ LET f == cell([stack[i] EXCEPT !.ncalls = @ + 1])
       IN  /\ stack' = IF f.panicked THEN SetFrame(i, f)
                       ELSE Append(SetFrame(i, [f EXCEPT !.pc = "instrip"]),
                                   NewFrame(strip_builder(stack[i])))
           /\ status' = IF f.panicked THEN "unwinding" ELSE status
    /\ ops' = ops + 1
    /\ UNCHANGED <<strict, response, resolved>>

\* a faulty return from strip.strip: the nested strip drew its lengths from
\* the parent's view, which is shorter by as many entries on return
StripReturn_leak(i) ==
    /\ status = "running" /\ i > 1 /\ i = Len(stack)
    /\ stack[i].pc \in {"config", "finished"}
    /\ stack' = [SubSeq(stack, 1, i - 1) EXCEPT
                    ![i - 1].pc = "callback",
                    ![i - 1].strip.sizes = SubSeq(@, Len(stack[i].lengths) + 1, Len(@))]
    /\ UNCHANGED <<status, strict, response, ops, resolved>>

\* the closure given to Strip::strip returns, with or without having
\* finalized its builder; the parent's content callback returns with it
StripReturn(i) ==
    /\ status = "running" /\ i > 1 /\ i = Len(stack)
    /\ stack[i].pc \in {"config", "finished"}
    /\ stack' = [SubSeq(stack, 1, i - 1) EXCEPT ![i - 1].pc = "callback"]
    /\ UNCHANGED <<status, strict, response, ops, resolved>>

\* the strip callback returns: the Strip goes out of scope
DropStrip(i) ==
    /\ status = "running" /\ stack[i].pc = "callback"
    /\ stack' = SetFrame(i, [drop(stack[i]) EXCEPT !.pc = "dropped"])
    /\ UNCHANGED <<status, strict, response, ops, resolved>>

\* horizontal/vertical call allocate_rect and return its response
AllocateRect(i) ==
    /\ status = "running" /\ stack[i].pc = "dropped"
    /\ LET f == allocate_rect(stack[i])
       IN  /\ stack' = SetFrame(i, f)
           /\ response' = IF i = 1 THEN f.response ELSE response
           /\ status' = IF i = 1 THEN "returned" ELSE status
    /\ UNCHANGED <<strict, ops, resolved>>

\* a content callback, the strip callback or the closure of a nested strip panics
Abort(i) ==
    /\ status = "running" /\ i = Len(stack)
    /\ \/ stack[i].pc \in {"callback", "content"}
       \/ i > 1 /\ stack[i].pc \in {"config", "finished"}
    /\ status' = "unwinding"
    /\ UNCHANGED <<stack, strict, response, ops, resolved>>

\* the panic unwinds the innermost frame left: a live Strip is dropped
Unwind(i) ==
    /\ status = "unwinding"
    /\ stack[i].pc # "unwound"
    /\ \A j \in Frames : j > i => stack[j].pc = "unwound"
    /\ stack' = SetFrame(i, unwind(stack[i]))
    /\ status' = IF i = 1 THEN "aborted" ELSE status
    /\ UNCHANGED <<strict, response, ops, resolved>>

Next ==
    \/ \E i \in Frames, c \in BOOLEAN : ClipCall(i, c)
    \/ \E i \in Frames, l \in Layouts : CellLayoutCall(i, l)
    \/ \E i \in Frames, spec \in Specs : SizeCall(i, spec)
    \/ \E i \in Frames, spec \in Specs, count \in 0..MaxSizes : SizesCall(i, spec, count)
    \/ \E i \in Frames, a \in Avails, sp \in Spacings : Horizontal(i, a, sp)
    \/ \E i \in Frames, a \in Avails, sp \in Spacings : Vertical(i, a, sp)
    \/ \E i \in Frames : Cell(i)
    \/ \E i \in Frames : ContentReturn(i)
    \/ \E i \in Frames : Empty(i)
    \/ \E i \in Frames : StripCall(i)
    \/ \E i \in Frames : StripReturn(i)
    \/ \E i \in Frames : DropStrip(i)
    \/ \E i \in Frames : AllocateRect(i)
    \/ \E i \in Frames : Abort(i)
    \/ \E i \in Frames : Unwind(i)

Spec == Init /\ [][Next]_vars

----------------------------------------------------------------------------
(* The resolver on its own: Sizing::to_lengths applied to bounded inputs *)

ResolverSpecs ==
    {exact(40), exact(0), remainder, relative(2),
     at_least(remainder, 30), at_most(remainder, 20),
     at_most(at_least(relative(2), 10), 50),
     at_least(exact(10), 30), at_most(exact(40), 20),
     at_most(at_least(remainder, 30), 30)}
ResolverAvails == {0, 10, 100}
ResolverSpacings == {0, 10, 60}

SeqsUpTo(S, n) == UNION {[1..k -> S] : k \in 0..n}

InitResolver ==
    /\ stack = <<>>
    /\ status = "resolver"
    /\ strict = FALSE
    /\ response = NoResponse
    /\ ops = 0
    /\ \E specs \in SeqsUpTo(ResolverSpecs, MaxSpecs),
          available \in ResolverAvails, spacing \in ResolverSpacings :
            resolved = [specs |-> specs, available |-> available, spacing |-> spacing,
                        lengths |-> <<>>, done |-> FALSE]

\* self.sizing.to_lengths(available, spacing)
Resolve ==
    /\ ~resolved.done
    /\ resolved' = [resolved EXCEPT
                        !.lengths = to_lengths(resolved.specs, resolved.available,
                                               resolved.spacing),
                        !.done = TRUE]
    /\ UNCHANGED <<stack, status, strict, response, ops>>

NextResolver == Resolve

SpecResolver == InitResolver /\ [][NextResolver]_vars

----------------------------------------------------------------------------
(* Vocabulary of the properties *)

\* horizontal/vertical has built the engine of this frame
Finalized(f) == f.layout.direction # "None"

\* the add and empty calls the engine of a frame received, in order
EngineCalls(f) == SelectSeq(f.layout.log, LAMBDA e : e.op # "allocate_rect")

\* positions of allocate_rect in the log of a frame's engine
AllocateRectAt(f) ==
    {j \in 1..Len(f.layout.log) : f.layout.log[j].op = "allocate_rect"}

\* the Strip of the frame has gone out of scope without a panic of its own
StripGone(f) ==
    \/ f.pc \in {"dropped", "finished"}
    \/ f.pc = "unwound" /\ Finalized(f) /\ ~f.panicked

\* calls the callback issued while the remaining view was empty
OverCalls(f) == Max(f.ncalls - Len(f.lengths), 0)

----------------------------------------------------------------------------
(* Properties *)

\* C1: drain invariant. When the callback of a strip built from N resolved
\* lengths issued k < N cell/empty/strip calls before the Strip went out of
\* scope, the engine has received exactly N calls, the last N - k of them
\* empty cells carrying the lengths k+1..N in order, all of them before
\* allocate_rect, so the primary-axis lengths forwarded add up to the sum of
\* the N resolved lengths.
DrainInvariant ==
    \A i \in Frames :
        LET f == stack[i]
            N == Len(f.lengths)
            k == f.ncalls
            calls == EngineCalls(f)
        IN  (StripGone(f) /\ k < N) =>
                /\ Len(calls) = N
                /\ \A j \in (k + 1)..N :
                      /\ calls[j].op = "empty"
                      /\ primary(f.layout, calls[j]) = f.lengths[j]
                /\ \A a \in AllocateRectAt(f) : a = N + 1
                /\ used(f.layout, f.layout.log) = SumSeq(f.lengths)

\* C1 happens: sizes = [40], no call, one empty cell of length 40 before finalize
DrainWitness ==
    \E i \in Frames :
        /\ stack[i].pc = "dropped"
        /\ stack[i].lengths = <<40>>
        /\ stack[i].ncalls = 0
        /\ stack[i].layout.direction = "Horizontal"
        /\ stack[i].layout.log =
               <<[op |-> "empty", width |-> Absolute(40), height |-> Remainder]>>

\* C2 as stated: whatever number of calls the callback issued, the total
\* primary-axis length forwarded by the time allocate_rect is called is the
\* sum of the resolver's output.
TotalIsResolverOutput ==
    \A i \in Frames :
        AllocateRectAt(stack[i]) # {} =>
            used(stack[i].layout, stack[i].layout.log) = SumSeq(stack[i].lengths)

\* C2 amended: by the time allocate_rect is called the total primary-axis
\* length forwarded is the sum of the resolver's output plus the fallback
\* length 8 for every call issued while the remaining view was empty; it is
\* the resolver's output exactly when at most N calls were issued.
TotalIsResolverOutputPlusFallback ==
    \A i \in Frames :
        LET f == stack[i]
        IN  (f.pc \in {"dropped", "finished"} \/ AllocateRectAt(f) # {}) =>
                /\ used(f.layout, f.layout.log)
                       = SumSeq(f.lengths) + Fallback * OverCalls(f)
                /\ (f.ncalls <= Len(f.lengths) =>
                       used(f.layout, f.layout.log) = SumSeq(f.lengths))

\* C2 happens: allocate_rect was called after the callback issued more calls
\* than there are lengths
TotalWitness ==
    \E i \in Frames :
        /\ stack[i].pc = "finished"
        /\ stack[i].lengths # <<>>
        /\ stack[i].ncalls > Len(stack[i].lengths)
        /\ used(stack[i].layout, stack[i].layout.log) = SumSeq(stack[i].lengths) + Fallback

\* C3: the j-th cell/empty/strip call (1 <= j <= N) reaches the engine with
\* the j-th resolved length as its primary-axis size, and after it the
\* remaining view is the lengths j+1..N in their original order.
CursorOrder ==
    \A i \in Frames :
        LET f == stack[i]
            N == Len(f.lengths)
            calls == EngineCalls(f)
        IN  Finalized(f) =>
                /\ \A j \in 1..Min(Len(calls), N) :
                      primary(f.layout, calls[j]) = f.lengths[j]
                /\ LiveStrip(f) =>
                      /\ Len(calls) >= Min(f.ncalls, N)
                      /\ f.strip.sizes = SubSeq(f.lengths, Min(f.ncalls, N) + 1, N)

\* C3 happens: one call made on a strip of two different lengths
CursorOrderWitness ==
    \E i \in Frames :
        /\ stack[i].pc = "callback"
        /\ Len(stack[i].lengths) = 2
        /\ stack[i].lengths[1] # stack[i].lengths[2]
        /\ stack[i].ncalls = 1
        /\ stack[i].strip.sizes = <<stack[i].lengths[2]>>

\* C4: a call made with the remaining view empty is never a silent no-op.
\* Without debug assertions every such call prints a diagnostic, reaches the
\* engine with the fallback length 8 as its primary-axis size (a cell runs
\* its content callback) and leaves the view empty; with debug assertions it
\* panics and nothing is forwarded for it.
OverConsumption ==
    \A i \in Frames :
        LET f == stack[i]
            N == Len(f.lengths)
            calls == EngineCalls(f)
        IN  (Finalized(f) /\ f.ncalls > N) =>
                IF strict
                THEN /\ f.panicked
                     /\ status # "running"
                     /\ f.ncalls = N + 1
                     /\ Len(calls) = N
                     /\ f.diags = 0
                ELSE /\ ~f.panicked
                     /\ f.diags = f.ncalls - N
                     /\ Len(calls) = f.ncalls
                     /\ \A j \in (N + 1)..f.ncalls :
                           primary(f.layout, calls[j]) = Fallback
                     /\ f.strip.sizes = <<>>
                     /\ f.pc \in {"content", "instrip"} => calls[Len(calls)].op = "add"

\* C4 happens: a cell added beyond the allocated sizes runs its content callback
OverConsumptionWitness ==
    \E i \in Frames :
        /\ ~strict
        /\ stack[i].pc = "content"
        /\ stack[i].lengths # <<>>
        /\ stack[i].ncalls = Len(stack[i].lengths) + 1
        /\ stack[i].diags = 1

\* C5: allocate_rect is called exactly once per completing horizontal/vertical
\* call, after the callback returned and the drain finished; no add or empty
\* reaches the engine after it, and the response returned is the one it produced.
AllocateRectOnce ==
    /\ \A i \in Frames :
          LET f == stack[i]
          IN  /\ Cardinality(AllocateRectAt(f)) = IF f.pc = "finished" THEN 1 ELSE
                                                  IF f.pc = "unwound" /\ f.response # NoResponse
                                                  THEN 1 ELSE 0
              /\ \A a \in AllocateRectAt(f) :
                    /\ a = Len(f.layout.log)
                    /\ f.strip.sizes = <<>>
                    /\ f.pc \in {"finished", "unwound"}
                    /\ f.response = allocate_rect_response(f.layout)
    /\ status = "returned" =>
          /\ stack[1].pc = "finished"
          /\ response = stack[1].response
          /\ response # NoResponse

\* C5 happens: the outermost call returned after two cells
AllocateRectWitness ==
    /\ status = "returned"
    /\ Len(stack[1].layout.log) = 3
    /\ stack[1].layout.log[1].op = "add"
    /\ stack[1].layout.log[3].op = "allocate_rect"

\* the sizing a sequence of size and sizes calls asks for: one spec per size
\* call, count copies per sizes call, in call order
RECURSIVE Requested(_)
Requested(history) ==
    IF history = <<>> THEN <<>>
    ELSE [j \in 1..Head(history).count |-> Head(history).spec] \o Requested(Tail(history))

\* C6 as stated: every Strip::strip call takes exactly one entry from the
\* parent's remaining view.
StripConsumesOneEntry ==
    [][\A i \in Frames :
            (Len(stack') = Len(stack) + 1 /\ i = Len(stack)) =>
                Len(stack'[i].strip.sizes) = Len(stack[i].strip.sizes) - 1]_vars

\* C6 amended: Strip::strip is one cell call: it takes the front entry of
\* the parent's remaining view when the view is not empty (none when it is
\* empty: the call then takes the over-consumption path), forwards one add
\* to the parent's engine and hands the closure a new builder, with an empty
\* sizing, whose clip flag is the clip flag of the parent's engine; whatever
\* the closure does with that builder, a finalize included, happens while
\* the parent is inside that cell's content callback.
StripIsOneCell ==
    /\ [](\A i \in Frames :
            (i > 1 /\ status = "running") => stack[i - 1].pc = "instrip")
    /\ [][\A i \in Frames :
            (Len(stack') = Len(stack) + 1 /\ i = Len(stack)) =>
                /\ stack'[i].pc = "instrip"
                /\ stack'[i].strip.sizes =
                       (IF stack[i].strip.sizes = <<>> THEN <<>>
                        ELSE Tail(stack[i].strip.sizes))
                /\ Len(stack'[i].layout.log) = Len(stack[i].layout.log) + 1
                /\ stack'[i].layout.log[Len(stack'[i].layout.log)].op = "add"
                /\ stack'[i + 1].pc = "config"
                /\ stack'[i + 1].builder.clip = stack[i].layout.clip
                /\ stack'[i + 1].builder.sizing = <<>>]_vars

\* C6 happens: a strip whose engine does not clip handed out a nested builder
\* and the nested builder was finalized inside the cell
StripIsOneCellWitness ==
    /\ Len(stack) = 2
    /\ stack[1].pc = "instrip"
    /\ stack[1].layout.clip = FALSE
    /\ stack[1].lengths # <<>>
    /\ stack[2].pc = "callback"
    /\ stack[2].layout.clip = FALSE
    /\ ops = 3

\* C7: the sizing is the concatenation, in call order, of one spec per
\* size(spec) call and count copies of spec per sizes(spec, count) call, and
\* that sizing is what horizontal/vertical hand to the resolver.
SizingIsConcatenation ==
    /\ [](\A i \in Frames :
            stack[i].pc = "config" =>
                stack[i].builder.sizing = Requested(stack[i].history))
    /\ [][\A i \in Frames :
            (stack[i].pc = "config" /\ i \in DOMAIN stack' /\ stack'[i].pc = "callback") =>
                \E a \in Avails, sp \in Spacings :
                    stack'[i].lengths = to_lengths(Requested(stack[i].history), a, sp)]_vars

\* C7 happens: size(a), sizes(b, 0), sizes(b, 1) with a # b gave <<a, b>>
SizingWitness ==
    \E i \in Frames :
        /\ stack[i].pc = "config"
        /\ Len(stack[i].history) = 3
        /\ stack[i].history[1].op = "size"
        /\ stack[i].history[2].op = "sizes" /\ stack[i].history[2].count = 0
        /\ stack[i].history[3].op = "sizes" /\ stack[i].history[3].count = 1
        /\ stack[i].history[1].spec # stack[i].history[3].spec
        /\ stack[i].builder.sizing = <<stack[i].history[1].spec, stack[i].history[3].spec>>

\* C8: a panic of a content callback or of the strip callback leaves
\* horizontal/vertical uncaught: from then on allocate_rect is not called on
\* any engine, no content callback is entered (the engines receive nothing
\* but the empty cells of the drain), and no response is returned.
AbortPropagates ==
    /\ []((status \in {"unwinding", "aborted"}) => response = NoResponse)
    /\ [](status = "aborted" =>
            /\ \A i \in Frames : stack[i].pc = "unwound"
            /\ AllocateRectAt(stack[1]) = {})
    /\ [][status' \in {"unwinding", "aborted"} =>
            /\ Len(stack') = Len(stack)
            /\ response' = response
            /\ \A i \in Frames :
                  /\ AllocateRectAt(stack'[i]) = AllocateRectAt(stack[i])
                  /\ stack'[i].response = stack[i].response
                  /\ stack'[i].pc \in {stack[i].pc, "unwound"}
                  /\ \A j \in (Len(stack[i].layout.log) + 1)..Len(stack'[i].layout.log) :
                        stack'[i].layout.log[j].op = "empty"]_vars

\* C8 happens: the content callback of the first of two cells panicked and
\* the pass ended aborted, the second cell drained as an empty cell
AbortWitness ==
    /\ status = "aborted"
    /\ ~stack[1].panicked
    /\ Len(stack[1].lengths) = 2
    /\ Len(stack[1].layout.log) = 2
    /\ stack[1].layout.log[1].op = "add"
    /\ stack[1].layout.log[2].op = "empty"

\* C9: execution is synchronous and well nested. Only the innermost strip
\* acts: while a content callback of a strip runs, and while a nested strip
\* exists, the engine and the remaining view of the enclosing strip do not
\* change; a nested strip has made all its calls, its drain and its
\* allocate_rect before the parent goes on.
WellNested ==
    /\ [](\A i \in Frames :
            i < Len(stack) =>
                /\ stack[i].pc \in {"instrip", "unwound"}
                /\ stack[i].pc = "unwound" => stack[i + 1].pc = "unwound")
    /\ [][\A i \in Frames :
            (i \in DOMAIN stack'
             /\ (stack'[i].layout # stack[i].layout
                 \/ stack'[i].strip # stack[i].strip)) =>
                /\ \A j \in Frames : j > i => stack[j].pc = "unwound"
                /\ stack[i].pc \in {"config", "callback", "dropped"}
                   \/ status = "unwinding"]_vars
    /\ [][(Len(stack') < Len(stack)) =>
            /\ Len(stack') = Len(stack) - 1
            /\ stack[Len(stack)].pc \in {"config", "finished"}
            /\ stack'[Len(stack')].pc = "callback"
            /\ stack'[Len(stack')].layout = stack[Len(stack')].layout
            /\ stack'[Len(stack')].strip = stack[Len(stack')].strip]_vars

\* C9 happens: a nested strip ran a cell and its allocate_rect while the
\* parent is still inside the cell that holds it
WellNestedWitness ==
    /\ Len(stack) = 2
    /\ stack[1].pc = "instrip"
    /\ stack[2].pc = "finished"
    /\ Len(stack[2].layout.log) = 2
    /\ stack[2].layout.log[1].op = "add"

\* C10: the length the resolver gives a spec lies in the range [min, max]
\* the spec carries, for every available length and spacing.
ResolvedInRange ==
    resolved.done =>
        /\ Len(resolved.lengths) = Len(resolved.specs)
        /\ \A j \in 1..Len(resolved.specs) :
              /\ resolved.lengths[j] >= resolved.specs[j].min
              /\ resolved.specs[j].hasMax => resolved.lengths[j] <= resolved.specs[j].max

\* C10 happens: [Remainder().at_least(30)] with available 10 resolves to [30]
ResolvedInRangeWitness ==
    /\ resolved.done
    /\ resolved.specs = <<at_least(remainder, 30)>>
    /\ resolved.available = 10
    /\ resolved.lengths = <<30>>

\* C11: the lengths horizontal/vertical hand to the Strip are the resolver's
\* output for the builder's sizing: as many entries as the sizing has specs,
\* in the same order (an exact spec's place holds its length), none negative,
\* and none at all for an empty sizing; so a strip built from N sizes whose
\* callback issued at most N calls has sent exactly N add/empty calls to the
\* engine once its Strip is gone.
LengthsMatchSizing ==
    /\ [](\A i \in Frames :
            LET f == stack[i]
            IN  /\ \A j \in 1..Len(f.lengths) : f.lengths[j] >= 0
                /\ (StripGone(f) /\ f.ncalls <= Len(f.lengths)) =>
                      Len(EngineCalls(f)) = Len(f.lengths))
    /\ [][\A i \in Frames :
            (stack[i].pc = "config" /\ i \in DOMAIN stack' /\ stack'[i].pc = "callback") =>
                LET sizing == stack[i].builder.sizing
                    g == stack'[i]
                IN  /\ Len(g.lengths) = Len(sizing)
                    /\ g.strip.sizes = g.lengths
                    /\ sizing = <<>> => g.strip.sizes = <<>>
                    /\ \A j \in 1..Len(sizing) :
                          sizing[j].kind = "Absolute" => g.strip.sizes[j] = sizing[j].v]_vars

\* C11 happens: two sizes, one call, two calls on the engine when the Strip is gone
LengthsMatchSizingWitness ==
    \E i \in Frames :
        /\ stack[i].pc = "dropped"
        /\ Len(stack[i].lengths) = 2
        /\ stack[i].lengths[1] # stack[i].lengths[2]
        /\ stack[i].ncalls = 1
        /\ Len(EngineCalls(stack[i])) = 2

SizePairByDirection ==
    /\ [](\A i \in Frames :
            LET f == stack[i]
            IN  Finalized(f) =>
                    /\ f.strip.direction = f.layout.direction
                    /\ f.strip.direction \in {"Horizontal", "Vertical"}
                    /\ \A j \in 1..Len(EngineCalls(f)) :
                          LET e == EngineCalls(f)[j]
                              len == IF j <= Len(f.lengths) THEN f.lengths[j] ELSE Fallback
                          IN  IF f.strip.direction = "Horizontal"
                              THEN e.width = Absolute(len) /\ e.height = Remainder
                              ELSE e.width = Remainder /\ e.height = Absolute(len))
    /\ [][\A i \in Frames :
            (Finalized(stack[i]) /\ i \in DOMAIN stack') =>
                /\ stack'[i].strip.direction = stack[i].strip.direction
                /\ stack'[i].layout.direction = stack[i].layout.direction]_vars

\* C13 happens: a vertical strip forwarded a cell of height 40
SizePairWitness ==
    \E i \in Frames :
        /\ stack[i].strip.direction = "Vertical"
        /\ stack[i].layout.log # <<>>
        /\ stack[i].layout.log[1] =
               [op |-> "add", width |-> Remainder, height |-> Absolute(40)]

\* C14: a new builder has clip = true and an empty sizing; a clip or
\* cell_layout call changes at most its own field and never the sizing; a
\* size or sizes call changes only the sizing; so whatever the order of the
\* calls, the builder holds, and horizontal/vertical give the layout
\* engine, the clip flag and the cell layout of the latest clip /
\* cell_layout call (those of construction when there was none).
BuilderFrameConditions ==
    /\ [](\A i \in Frames :
            LET f == stack[i]
            IN  /\ (i = 1 /\ f.pc = "config" /\ ops = 0) =>
                      f.builder.clip = TRUE /\ f.builder.sizing = <<>>
                /\ f.pc = "config" =>
                      /\ f.builder.clip = f.asked.clip
                      /\ f.builder.cell_layout = f.asked.cell_layout
                /\ Finalized(f) =>
                      /\ f.layout.clip = f.asked.clip
                      /\ f.layout.cell_layout = f.asked.cell_layout)
    /\ [][\A i \in Frames :
            (stack[i].pc = "config" /\ i \in DOMAIN stack' /\ stack'[i].pc = "config") =>
                LET b == stack[i].builder
                    c == stack'[i].builder
                IN  IF stack'[i].history # stack[i].history
                    THEN c.clip = b.clip /\ c.cell_layout = b.cell_layout
                    ELSE /\ c.sizing = b.sizing
                         /\ c.clip = b.clip \/ c.cell_layout = b.cell_layout]_vars

\* C14 happens: three configuration calls, a clip(false) and a size among
\* them, and the engine of the outermost strip is built without clipping
BuilderFrameWitness ==
    /\ Finalized(stack[1])
    /\ ops = 3
    /\ stack[1].ncalls = 0
    /\ Len(stack[1].lengths) = 1
    /\ stack[1].layout.clip = FALSE
    /\ stack[1].layout.cell_layout = "top_down"

\* C15: dropping the Strip, at the end of the callback or while a panic
\* unwinds, makes one empty call for each length left in the view, in
\* order, and nothing else: the view ends empty, no diagnostic is printed,
\* no fallback length is used and the cursor does not panic, also when the
\* callback over-consumed before.
DrainIsExact ==
    [][\A i \in Frames :
        (LiveStrip(stack[i]) /\ i \in DOMAIN stack'
            /\ stack'[i].pc \in {"dropped", "unwound"}) =>
            LET f == stack[i]
                g == stack'[i]
                left == f.strip.sizes
            IN  /\ g.strip.sizes = <<>>
                /\ Len(g.layout.log) = Len(f.layout.log) + Len(left)
                /\ SubSeq(g.layout.log, 1, Len(f.layout.log)) = f.layout.log
                /\ \A j \in 1..Len(left) :
                      LET e == g.layout.log[Len(f.layout.log) + j]
                      IN  e.op = "empty" /\ primary(g.layout, e) = left[j]
                /\ g.diags = f.diags
                /\ g.panicked = f.panicked]_vars

\* C15 happens: a nested strip aborted and the parent, unwinding, drained
\* the one length it had left after its strip call
DrainIsExactWitness ==
    /\ Len(stack) = 2
    /\ stack[1].pc = "unwound"
    /\ stack[2].pc = "unwound"
    /\ Len(stack[1].lengths) = 2
    /\ stack[1].ncalls = 1
    /\ Len(stack[1].layout.log) = 2
    /\ stack[1].layout.log[2].op = "empty"
    /\ stack[1].diags = 0

\* what C16 says of the nested builder and of the parent while the closure
\* of Strip::strip runs and when it returns: the nested builder starts with
\* nothing declared, and the parent's view and resolved lengths stay as the
\* strip call left them
NestedIsIsolated ==
    \A i \in Frames :
        /\ (Len(stack') = Len(stack) + 1 /\ i = Len(stack)) =>
              /\ stack'[i + 1].builder.sizing = <<>>
              /\ stack'[i + 1].history = <<>>
              /\ stack'[i + 1].lengths = <<>>
              /\ stack'[i + 1].strip = NoStrip
              /\ stack'[i].lengths = stack[i].lengths
        /\ (stack[i].pc = "instrip" /\ i \in DOMAIN stack'
                /\ stack'[i].pc \in {"instrip", "callback"}) =>
              /\ stack'[i].strip = stack[i].strip
              /\ stack'[i].lengths = stack[i].lengths

\* C16 as stated: the nested builder starts empty and the whole strip() call
\* shortens the parent's view by exactly one entry, the front one, whatever
\* the nested strip does.
StripCallTakesOneEntry ==
    [][/\ NestedIsIsolated
       /\ \A i \in Frames :
            (Len(stack') = Len(stack) + 1 /\ i = Len(stack)) =>
                /\ stack[i].strip.sizes # <<>>
                /\ stack'[i].strip.sizes = Tail(stack[i].strip.sizes)]_vars

\* C16 amended: the nested builder starts with an empty sizing of its own,
\* and whatever the nested strip declares, consumes, drains or
\* over-consumes, the whole strip() call takes the front entry off the
\* parent's view when the view is not empty and leaves it empty otherwise;
\* the other entries are unchanged.
StripCallTakesFrontEntry ==
    [][/\ NestedIsIsolated
       /\ \A i \in Frames :
            (Len(stack') = Len(stack) + 1 /\ i = Len(stack)) =>
                stack'[i].strip.sizes =
                    (IF stack[i].strip.sizes = <<>> THEN <<>>
                     ELSE Tail(stack[i].strip.sizes))]_vars

\* C16 happens: a nested strip with nothing declared over-consumed and
\* finished, and the parent still has the second of its two lengths
StripCallWitness ==
    /\ Len(stack) = 2
    /\ stack[1].pc = "instrip"
    /\ Len(stack[1].lengths) = 2
    /\ stack[1].strip.sizes = <<stack[1].lengths[2]>>
    /\ stack[2].pc = "finished"
    /\ stack[2].lengths = <<>>
    /\ stack[2].diags = 1

====
